---- MODULE Spec2Model ----
(***************************************************************************)
(* Rate Mate v0.1 (src/rate_mate.py): the aggregation and grouping engine  *)
(* of the dashboard, with the render pass that drives it.                  *)
(*                                                                         *)
(* Column names are Python strings; they are modelled as sequences of      *)
(* one-character strings so that startswith, split, replace, "in" and      *)
(* sorted() are computed character by character, as Python computes them.  *)
(***************************************************************************)
EXTENDS Integers, Sequences, FiniteSets, TLC

(***************************************************************************)
(* Python str operations used by the program                               *)
(***************************************************************************)

\* code points, in increasing order, of the characters that occur in names
Alphabet ==
  << " ", ",", "-", "0", "1", "2", "3", "4", "5", "6", "7", "8", "9",
     "A", "B", "C", "D", "E", "F", "G", "H", "I", "J", "K", "L", "M",
     "N", "O", "P", "Q", "R", "S", "T", "U", "V", "W", "X", "Y", "Z",
     "_", "a", "b", "c", "d", "e", "f", "g", "h", "i", "j", "k", "l",
     "m", "n", "o", "p", "q", "r", "s", "t", "u", "v", "w", "x", "y",
     "z" >>

Ord(ch) == CHOOSE i \in 1..Len(Alphabet) : Alphabet[i] = ch

\* s < t for Python strings (lexicographic by code point)
StrLess(s, t) ==
  \/ /\ Len(s) < Len(t)
     /\ \A i \in 1..Len(s) : s[i] = t[i]
  \/ \E k \in 1..Len(s) :
       /\ k <= Len(t)
       /\ \A i \in 1..(k-1) : s[i] = t[i]
       /\ Ord(s[k]) < Ord(t[k])

\* s.startswith(p)
StartsWith(s, p) ==
  /\ Len(p) <= Len(s)
  /\ \A i \in 1..Len(p) : s[i] = p[i]

\* s.endswith(p)
EndsWith(s, p) ==
  /\ Len(p) <= Len(s)
  /\ \A i \in 1..Len(p) : s[Len(s) - Len(p) + i] = p[i]

\* sub in s
Contains(s, sub) ==
  \E k \in 0..(Len(s) - Len(sub)) :
    \A i \in 1..Len(sub) : s[k + i] = sub[i]

\* s.split(sep) for a one-character separator: the list of tokens
RECURSIVE SplitFrom(_, _, _, _)
SplitFrom(s, sep, i, cur) ==
  IF i > Len(s) THEN << cur >>
  ELSE IF s[i] = sep THEN << cur >> \o SplitFrom(s, sep, i + 1, << >>)
  ELSE SplitFrom(s, sep, i + 1, Append(cur, s[i]))

Split(s, sep) == SplitFrom(s, sep, 1, << >>)

\* s.replace(old, new): every non-overlapping occurrence, left to right
RECURSIVE ReplaceFrom(_, _, _, _)
ReplaceFrom(s, old, new, i) ==
  IF i > Len(s) THEN << >>
  ELSE IF /\ i + Len(old) - 1 <= Len(s)
          /\ \A j \in 1..Len(old) : s[i + j - 1] = old[j]
       THEN new \o ReplaceFrom(s, old, new, i + Len(old))
       ELSE << s[i] >> \o ReplaceFrom(s, old, new, i + 1)

Replace(s, old, new) == ReplaceFrom(s, old, new, 1)

\* sep.join(list)
RECURSIVE Join(_, _)
Join(list, sep) ==
  IF list = << >> THEN << >>
  ELSE IF Len(list) = 1 THEN list[1]
  ELSE list[1] \o sep \o Join(Tail(list), sep)

\* sorted(set of strings)
RECURSIVE Sorted(_)
Sorted(S) ==
  IF S = {} THEN << >>
  ELSE LET m == CHOOSE x \in S : \A y \in S \ {x} : StrLess(x, y)
       IN  << m >> \o Sorted(S \ {m})

\* the elements of a list
Range(list) == { list[i] : i \in 1..Len(list) }

\* sum of f[x] over the elements of a list
RECURSIVE SumOver(_, _)
SumOver(list, f) ==
  IF list = << >> THEN 0 ELSE f[Head(list)] + SumOver(Tail(list), f)

(***************************************************************************)
(* Constants of the program                                                *)
(***************************************************************************)

RATE_SUFFIX == << "_", "r", "a", "t", "e" >>
CAP_SUFFIX  == << "_", "c", "a", "p" >>

CL_Prefix        == << "C", "L", "_" >>
Recovery_Prefix  == << "R", "e", "c", "o", "v", "e", "r", "y", "_" >>
Recovery         == << "R", "e", "c", "o", "v", "e", "r", "y" >>
BulkCapMark      == << "_", "b", "u", "l", "k", "_", "c", "a", "p" >>
WheeledCapMark   == << "_", "w", "h", "e", "e", "l", "e", "d", "_", "c", "a", "p" >>
Underscore       == "_"
Dash             == << "-" >>
CommaSpace       == << ",", " " >>

(***************************************************************************)
(* group_prefix                                                            *)
(***************************************************************************)

\* a plausible slip: the CL_ rule keeps only the first token
group_prefix_first_token(col) ==
  IF StartsWith(col, Recovery_Prefix) THEN Recovery
  ELSE Split(col, Underscore)[1]

group_prefix(col) ==
  IF StartsWith(col, CL_Prefix)
  THEN LET parts == Split(col, Underscore)
       IN  parts[1] \o << Underscore >> \o parts[2]
  ELSE IF StartsWith(col, Recovery_Prefix) THEN Recovery
  ELSE Split(col, Underscore)[1]

(***************************************************************************)
(* compute_totals                                                          *)
(*                                                                         *)
(* A table is [columns, rows]: the names of its value columns, in file     *)
(* order, and its rows, [unit_type, action, vals] for consumption and      *)
(* [unit_type, vals] for capacity, where vals maps each value column to    *)
(* its number.  unit_counts is a dict: a function whose domain is the set  *)
(* of unit types it has a key for.                                         *)
(***************************************************************************)

\* a plausible slip: a unit type without a key counts once (fillna(1))
CountOf_default_one(unit_counts, u) ==
  IF u \in DOMAIN unit_counts THEN unit_counts[u] ELSE 1

\* df["unit_type"].map(unit_counts).fillna(0).astype(int), for one row
CountOf(unit_counts, u) ==
  IF u \in DOMAIN unit_counts THEN unit_counts[u] ELSE 0

\* a plausible slip: the action filter is left out
RowsForAction_unfiltered(df, act) == df.rows

\* cons_df[cons_df["action"] == action]
RowsForAction(df, act) == SelectSeq(df.rows, LAMBDA row : row.action = act)

\* req[["unit_type","action","count"] + sel_rates], the rates times the count
ReqDetail(cons, act, unit_counts, sel_rates) ==
  LET req == RowsForAction(cons, act)
  IN  [ i \in 1..Len(req) |->
        LET n == CountOf(unit_counts, req[i].unit_type)
        IN  [ unit_type |-> req[i].unit_type,
              action    |-> req[i].action,
              count     |-> n,
              vals      |-> [ c \in Range(sel_rates) |-> req[i].vals[c] * n ] ] ]

\* cap[["unit_type","count"] + sel_caps], the capacities times the count
CapDetail(cap, unit_counts, sel_caps) ==
  [ i \in 1..Len(cap.rows) |->
    LET n == CountOf(unit_counts, cap.rows[i].unit_type)
    IN  [ unit_type |-> cap.rows[i].unit_type,
          count     |-> n,
          vals      |-> [ c \in Range(sel_caps) |-> cap.rows[i].vals[c] * n ] ] ]

\* detail[cols].sum(): the column-wise sum, a Series indexed by column name
RECURSIVE ColumnSum(_, _)
ColumnSum(detail, c) ==
  IF detail = << >> THEN 0
  ELSE Head(detail).vals[c] + ColumnSum(Tail(detail), c)

ColumnSums(detail, cols) == [ c \in Range(cols) |-> ColumnSum(detail, c) ]

compute_totals(cons, cap, act, unit_counts, sel_rates, sel_caps) ==
  LET rd == ReqDetail(cons, act, unit_counts, sel_rates)
      cd == CapDetail(cap, unit_counts, sel_caps)
  IN  [ req_detail |-> rd,
        cap_detail |-> cd,
        total_req  |-> ColumnSums(rd, sel_rates),
        total_cap  |-> ColumnSums(cd, sel_caps) ]

(***************************************************************************)
(* build_group_summary                                                     *)
(*                                                                         *)
(* total_req and total_cap are Series: functions from the selected column  *)
(* names to numbers.  A cell of the returned DataFrame is a number, NaN    *)
(* (what pandas puts where a row dict has no such key) or a string.        *)
(***************************************************************************)

Num(n) == [ kind |-> "num", num |-> n, str |-> << >> ]
Str(s) == [ kind |-> "str", num |-> 0, str |-> s ]
NaN    == [ kind |-> "nan", num |-> 0, str |-> << >> ]

\* the labels of the row dict, in the order the code inserts them
BaseKeys    == << "Group", "Requirement", "Capacity", "Surplus/(Deficit)", "Deficit Subtypes" >>
BulkKeys    == << "Bulk Cap", "Bulk Surplus" >>
WheeledKeys == << "Wheeled Cap", "Wheeled Surplus" >>

\* sorted({ group_prefix(c) for c in sel_rates + sel_caps })
Groups(sel_rates, sel_caps) ==
  Sorted({ group_prefix(c) : c \in Range(sel_rates \o sel_caps) })

\* a plausible slip: membership by string prefix instead of equal group
Members_by_startswith(cols, grp) ==
  SelectSeq(cols, LAMBDA c : StartsWith(c, grp))

\* [c for c in cols if group_prefix(c)==grp]
Members(cols, grp) ==
  SelectSeq(cols, LAMBDA c : group_prefix(c) = grp)

\* total[keys].sum() if keys else 0
SumOrZero(total, keys) == IF keys # << >> THEN SumOver(keys, total) ELSE 0

\* a plausible slip: the operands of the subtraction are swapped
Surplus_swapped(cap_sum, req_sum) == req_sum - cap_sum

\* surplus = cap_sum - req_sum
Surplus(cap_sum, req_sum) == cap_sum - req_sum

\* [c for c in grp_caps if mark in c]
KeysWith(grp_caps, mark) == SelectSeq(grp_caps, LAMBDA c : Contains(c, mark))

\* a plausible slip: an empty subset is reported as a capacity of zero
SplitSum_zero(total_cap, keys, req_sum) ==
  [ present |-> TRUE,
    cap     |-> SumOver(keys, total_cap),
    surp    |-> SumOver(keys, total_cap) - req_sum ]

\* bulk_sum / wheel_sum and bulk_surp / wheel_surp; present = "is not None"
SplitSum(total_cap, keys, req_sum) ==
  IF keys # << >>
  THEN [ present |-> TRUE,
         cap     |-> SumOver(keys, total_cap),
         surp    |-> SumOver(keys, total_cap) - req_sum ]
  ELSE [ present |-> FALSE, cap |-> 0, surp |-> 0 ]

\* rate.replace(RATE_SUFFIX,"")
Base(rate) == Replace(rate, RATE_SUFFIX, << >>)

\* a plausible slip: only the capacity column of exactly that name matches
CapMatches_exact(sel_caps, base) ==
  SelectSeq(sel_caps, LAMBDA c : c = base \o CAP_SUFFIX)

\* [c for c in sel_caps if c.startswith(base)]
CapMatches(sel_caps, base) ==
  SelectSeq(sel_caps, LAMBDA c : StartsWith(c, base))

\* the loop over grp_rates that appends to deficit
RECURSIVE DeficitLoop(_, _, _, _)
DeficitLoop(rates, total_req, total_cap, sel_caps) ==
  IF rates = << >> THEN << >>
  ELSE LET rate == Head(rates)
           base == Base(rate)
           rest == DeficitLoop(Tail(rates), total_req, total_cap, sel_caps)
       IN  IF total_req[rate] > SumOver(CapMatches(sel_caps, base), total_cap)
           THEN << base >> \o rest
           ELSE rest

\* a plausible slip: the sign test of the guard is inverted
Deficit_inverted(surplus, grp_rates, total_req, total_cap, sel_caps) ==
  IF surplus > 0
  THEN DeficitLoop(grp_rates, total_req, total_cap, sel_caps)
  ELSE << >>

\* deficit = []; if surplus < 0: ...
Deficit(surplus, grp_rates, total_req, total_cap, sel_caps) ==
  IF surplus < 0
  THEN DeficitLoop(grp_rates, total_req, total_cap, sel_caps)
  ELSE << >>

\* ", ".join(deficit) if deficit else "-"
DeficitText(deficit) ==
  IF deficit # << >> THEN Join(deficit, CommaSpace) ELSE Dash

\* the row dict of one group: its keys in insertion order and their values
RowDict(grp, total_req, total_cap, sel_rates, sel_caps) ==
  LET grp_rates == Members(sel_rates, grp)
      grp_caps  == Members(sel_caps, grp)
      req_sum   == SumOrZero(total_req, grp_rates)
      cap_sum   == SumOrZero(total_cap, grp_caps)
      surplus   == Surplus(cap_sum, req_sum)
      bulk      == SplitSum(total_cap, KeysWith(grp_caps, BulkCapMark), req_sum)
      wheel     == SplitSum(total_cap, KeysWith(grp_caps, WheeledCapMark), req_sum)
      deficit   == Deficit(surplus, grp_rates, total_req, total_cap, sel_caps)
      base      == ( "Group"             :> Str(grp)
                  @@ "Requirement"       :> Num(req_sum)
                  @@ "Capacity"          :> Num(cap_sum)
                  @@ "Surplus/(Deficit)" :> Num(surplus)
                  @@ "Deficit Subtypes"  :> Str(DeficitText(deficit)) )
      withBulk  == IF bulk.present
                   THEN base @@ "Bulk Cap" :> Num(bulk.cap) @@ "Bulk Surplus" :> Num(bulk.surp)
                   ELSE base
      withBoth  == IF wheel.present
                   THEN withBulk @@ "Wheeled Cap" :> Num(wheel.cap)
                                 @@ "Wheeled Surplus" :> Num(wheel.surp)
                   ELSE withBulk
  IN  [ keys |-> BaseKeys \o (IF bulk.present THEN BulkKeys ELSE << >>)
                          \o (IF wheel.present THEN WheeledKeys ELSE << >>),
        val  |-> withBoth ]

\* the keys of the row dicts in order of first appearance
RECURSIVE KeyUnion(_, _)
KeyUnion(rows, seen) ==
  IF rows = << >> THEN seen
  ELSE KeyUnion(Tail(rows),
                seen \o SelectSeq(Head(rows).keys, LAMBDA k : k \notin Range(seen)))

\* pd.DataFrame(rows).set_index("Group"): every row gets every column, NaN
\* where its dict has no such key; the Group column becomes the index
DataFrame(rows) ==
  LET columns == SelectSeq(KeyUnion(rows, << >>), LAMBDA k : k # "Group")
  IN  [ index   |-> [ i \in 1..Len(rows) |-> rows[i].val["Group"].str ],
        columns |-> columns,
        data    |-> [ i \in 1..Len(rows) |->
                      [ k \in Range(columns) |->
                        IF k \in DOMAIN rows[i].val THEN rows[i].val[k] ELSE NaN ] ] ]

build_group_summary(total_req, total_cap, sel_rates, sel_caps) ==
  LET groups == Groups(sel_rates, sel_caps)
      rows   == [ i \in 1..Len(groups) |->
                  RowDict(groups[i], total_req, total_cap, sel_rates, sel_caps) ]
  IN  DataFrame(rows)

(***************************************************************************)
(* Column names of the input tables (the headers of consumption.csv and    *)
(* capacities.csv)                                                         *)
(***************************************************************************)

CL_I_rate          == << "C", "L", "_", "I", "_", "r", "a", "t", "e" >>
CL_III_rate        == << "C", "L", "_", "I", "I", "I", "_", "r", "a", "t", "e" >>
Javelin_rate       == << "J", "a", "v", "e", "l", "i", "n", "_", "r", "a", "t", "e" >>
Javelin_AT_rate    == << "J", "a", "v", "e", "l", "i", "n", "_", "A", "T", "_", "r", "a", "t", "e" >>
Recovery_tow_rate  == << "R", "e", "c", "o", "v", "e", "r", "y", "_", "t", "o", "w", "_", "r", "a", "t", "e" >>
Fuel_rate          == << "F", "u", "e", "l", "_", "r", "a", "t", "e" >>
Fuel_cap_rate      == << "F", "u", "e", "l", "_", "c", "a", "p", "_", "r", "a", "t", "e" >>
Fuel_rate_max_rate == << "F", "u", "e", "l", "_", "r", "a", "t", "e", "_", "m", "a", "x", "_", "r", "a", "t", "e" >>
CL_I_cap           == << "C", "L", "_", "I", "_", "c", "a", "p" >>
CL_III_cap         == << "C", "L", "_", "I", "I", "I", "_", "c", "a", "p" >>
CL_III_bulk_cap    == << "C", "L", "_", "I", "I", "I", "_", "b", "u", "l", "k", "_", "c", "a", "p" >>
CL_III_wheeled_cap == << "C", "L", "_", "I", "I", "I", "_", "w", "h", "e", "e", "l", "e", "d", "_", "c", "a", "p" >>
Javelin_cap        == << "J", "a", "v", "e", "l", "i", "n", "_", "c", "a", "p" >>
Javelin_AT_cap     == << "J", "a", "v", "e", "l", "i", "n", "_", "A", "T", "_", "c", "a", "p" >>
Recovery_lift_cap  == << "R", "e", "c", "o", "v", "e", "r", "y", "_", "l", "i", "f", "t", "_", "c", "a", "p" >>
Water_bulk_cap     == << "W", "a", "t", "e", "r", "_", "b", "u", "l", "k", "_", "c", "a", "p" >>
Fuel_cap           == << "F", "u", "e", "l", "_", "c", "a", "p" >>

(***************************************************************************)
(* State                                                                   *)
(***************************************************************************)

VARIABLES
  cons_df,         \* the consumption table (after the sidebar editor)
  cap_df,          \* the capacity table
  action,          \* the selected operational action
  unit_counts,     \* the dict of the count inputs
  selected_rates,  \* the list of selected rate columns
  selected_caps,   \* the list of selected capacity columns
  req_detail,      \* outputs of compute_totals
  cap_detail,
  total_req,
  total_cap,
  group_df,        \* output of build_group_summary
  st_error,        \* the message st.error showed in this pass, "" if none
  calls,           \* the core functions this pass has invoked, in order
  pc,              \* where the pass (or the function under study) stands
  col,             \* the argument of group_prefix
  grp              \* the result of group_prefix

inputs  == << cons_df, cap_df, action, unit_counts, selected_rates, selected_caps >>
outputs == << req_detail, cap_detail, total_req, total_cap, group_df >>
vars    == << inputs, outputs, st_error, calls, pc, col, grp >>

\* bounds of the inputs
MaxCount  == 2
MaxRows   == 2
MaxTotal  == 2
MaxTokens == 4

\* the non-empty sublists of a list, in the order of the list
RECURSIVE Pick(_, _, _)
Pick(s, I, i) ==
  IF i > Len(s) THEN << >>
  ELSE (IF i \in I THEN << s[i] >> ELSE << >>) \o Pick(s, I, i + 1)

SubLists(s) == { Pick(s, I, 1) : I \in SUBSET (1..Len(s)) } \ { << >> }

\* a selection list without x; the distinct values of a column, in order
Without(list, x) == SelectSeq(list, LAMBDA y : y # x)

RECURSIVE Unique(_, _)
Unique(list, seen) ==
  IF list = << >> THEN seen
  ELSE Unique(Tail(list),
              IF Head(list) \in Range(seen) THEN seen ELSE Append(seen, Head(list)))

EmptyTable == [ columns |-> << >>, rows |-> << >> ]
EmptyFrame == [ index |-> << >>, columns |-> << >>, data |-> << >> ]
NoSeries   == << >>

(***************************************************************************)
(* group_prefix applied to column names                                    *)
(***************************************************************************)

\* the tokens column names are built from; the empty token gives names
\* with two underscores in a row
Tokens ==
  { << >>,
    << "C", "L" >>,
    << "R", "e", "c", "o", "v", "e", "r", "y" >>,
    << "I", "I", "I" >>,
    << "J", "a", "v", "e", "l", "i", "n" >>,
    << "b", "u", "l", "k" >>,
    << "r", "a", "t", "e" >>,
    << "c", "a", "p" >> }

\* the names a table accepted by load_consumption / load_capacity can have
\* here: tokens joined by "_", the last one "rate" or "cap"
ColumnNames ==
  { Join(t, << Underscore >>) :
      t \in UNION { { u \in [ 1..n -> Tokens ] : u[n] \in { Tail(RATE_SUFFIX), Tail(CAP_SUFFIX) } }
                    : n \in 2..MaxTokens } }

IdleInputs ==
  /\ cons_df = EmptyTable
  /\ cap_df = EmptyTable
  /\ action = ""
  /\ unit_counts = << >>
  /\ selected_rates = << >>
  /\ selected_caps = << >>

IdleOutputs ==
  /\ req_detail = << >>
  /\ cap_detail = << >>
  /\ total_req = NoSeries
  /\ total_cap = NoSeries
  /\ group_df = EmptyFrame

InitGroup ==
  /\ col \in ColumnNames
  /\ grp = << >>
  /\ pc = "input"
  /\ st_error = ""
  /\ calls = << >>
  /\ IdleInputs
  /\ IdleOutputs

CallGroupPrefix ==
  /\ pc = "input"
  /\ grp' = group_prefix(col)
  /\ calls' = Append(calls, "group_prefix")
  /\ pc' = "returned"
  /\ UNCHANGED << inputs, outputs, st_error, col >>

NextGroup == CallGroupPrefix

SpecGroup == InitGroup /\ [][NextGroup]_vars

(***************************************************************************)
(* compute_totals applied to bounded inputs                                *)
(***************************************************************************)

TotalsRates == << CL_III_rate, Javelin_rate >>
TotalsCaps  == << CL_III_bulk_cap, CL_III_wheeled_cap >>

Actions == { "Assault", "Defend" }

\* rows a consumption table is made of: one unit type under two actions,
\* and a second unit type
ConsRows ==
  { [ unit_type |-> "InfantryCo", action |-> "Assault",
      vals |-> (CL_III_rate :> 10 @@ Javelin_rate :> 2) ],
    [ unit_type |-> "InfantryCo", action |-> "Defend",
      vals |-> (CL_III_rate :> 4 @@ Javelin_rate :> 1) ],
    [ unit_type |-> "FSC", action |-> "Assault",
      vals |-> (CL_III_rate :> 3 @@ Javelin_rate :> 0) ] }

ConsTables ==
  { [ columns |-> TotalsRates, rows |-> r ] :
      r \in UNION { [ 1..n -> ConsRows ] : n \in 1..MaxRows } }

\* capacity tables: one with a unit type no consumption row has, one with
\* a unit type on two rows
CapTables ==
  { [ columns |-> TotalsCaps,
      rows |-> << [ unit_type |-> "InfantryCo",
                    vals |-> (CL_III_bulk_cap :> 4 @@ CL_III_wheeled_cap :> 3) ],
                  [ unit_type |-> "TruckCo",
                    vals |-> (CL_III_bulk_cap :> 0 @@ CL_III_wheeled_cap :> 5) ] >> ],
    [ columns |-> TotalsCaps,
      rows |-> << [ unit_type |-> "InfantryCo",
                    vals |-> (CL_III_bulk_cap :> 4 @@ CL_III_wheeled_cap :> 3) ],
                  [ unit_type |-> "InfantryCo",
                    vals |-> (CL_III_bulk_cap :> 1 @@ CL_III_wheeled_cap :> 1) ],
                  [ unit_type |-> "FSC",
                    vals |-> (CL_III_bulk_cap :> 2 @@ CL_III_wheeled_cap :> 0) ] >> ] }

\* the unit types a count dict may have a key for
CountUnits == { "InfantryCo", "FSC" }

\* the dicts of counts: any set of keys, each count a non-negative integer
CountDicts == UNION { [ K -> 0..MaxCount ] : K \in SUBSET CountUnits }

InitTotals ==
  /\ cons_df \in ConsTables
  /\ cap_df \in CapTables
  /\ action \in Actions
  /\ unit_counts \in CountDicts
  /\ selected_rates \in SubLists(TotalsRates)
  /\ selected_caps \in SubLists(TotalsCaps)
  /\ IdleOutputs
  /\ st_error = ""
  /\ calls = << >>
  /\ pc = "input"
  /\ col = << >>
  /\ grp = << >>

CallComputeTotals ==
  /\ pc = "input"
  /\ LET r == compute_totals(cons_df, cap_df, action, unit_counts,
                             selected_rates, selected_caps)
     IN  /\ req_detail' = r.req_detail
         /\ cap_detail' = r.cap_detail
         /\ total_req' = r.total_req
         /\ total_cap' = r.total_cap
  /\ calls' = Append(calls, "compute_totals")
  /\ pc' = "returned"
  /\ UNCHANGED << inputs, group_df, st_error, col, grp >>

NextTotals == CallComputeTotals

SpecTotals == InitTotals /\ [][NextTotals]_vars

(***************************************************************************)
(* build_group_summary applied to bounded inputs                           *)
(***************************************************************************)

\* the rate and capacity columns of four pairs of tables
Families ==
  { \* a bulk/wheeled split, a rate without capacity, the Recovery rule
    [ rates |-> << CL_III_rate, Javelin_rate, Recovery_tow_rate >>,
      caps  |-> << CL_III_bulk_cap, CL_III_wheeled_cap, Recovery_lift_cap >> ],
    \* a base name that is a prefix of another group's columns
    [ rates |-> << CL_I_rate, CL_III_rate >>,
      caps  |-> << CL_I_cap, CL_III_cap, Javelin_cap >> ],
    \* one capacity column under two rates of its group
    [ rates |-> << Javelin_rate, Javelin_AT_rate >>,
      caps  |-> << Javelin_AT_cap, Water_bulk_cap >> ],
    \* rate columns with "_cap" or a second "_rate" in their name
    [ rates |-> << Fuel_rate, Fuel_cap_rate, Fuel_rate_max_rate >>,
      caps  |-> << Fuel_cap >> ] }

InitSummary ==
  /\ \E f \in Families :
       /\ selected_rates \in SubLists(f.rates)
       /\ selected_caps \in SubLists(f.caps)
  /\ total_req \in [ Range(selected_rates) -> 0..MaxTotal ]
  /\ total_cap \in [ Range(selected_caps) -> 0..MaxTotal ]
  /\ cons_df = EmptyTable
  /\ cap_df = EmptyTable
  /\ action = ""
  /\ unit_counts = << >>
  /\ req_detail = << >>
  /\ cap_detail = << >>
  /\ group_df = EmptyFrame
  /\ st_error = ""
  /\ calls = << >>
  /\ pc = "input"
  /\ col = << >>
  /\ grp = << >>

CallBuildGroupSummary ==
  /\ pc = "input"
  /\ group_df' = build_group_summary(total_req, total_cap, selected_rates, selected_caps)
  /\ calls' = Append(calls, "build_group_summary")
  /\ pc' = "returned"
  /\ UNCHANGED << inputs, req_detail, cap_detail, total_req, total_cap,
                  st_error, col, grp >>

NextSummary == CallBuildGroupSummary

SpecSummary == InitSummary /\ [][NextSummary]_vars

(***************************************************************************)
(* The script: one pass from the widgets to the grouped summary.           *)
(* Streamlit runs the whole script again on every change of a widget, so   *)
(* each action below is a change of one widget followed by a full pass.    *)
(***************************************************************************)

\* the pairs of tables load_data returns
Sessions ==
  { [ cons |-> [ columns |-> << CL_III_rate, Javelin_rate >>,
                 rows |-> << [ unit_type |-> "InfantryCo", action |-> "Assault",
                               vals |-> (CL_III_rate :> 10 @@ Javelin_rate :> 2) ],
                             [ unit_type |-> "InfantryCo", action |-> "Defend",
                               vals |-> (CL_III_rate :> 4 @@ Javelin_rate :> 1) ],
                             [ unit_type |-> "FSC", action |-> "Assault",
                               vals |-> (CL_III_rate :> 3 @@ Javelin_rate :> 0) ] >> ],
      cap  |-> [ columns |-> << CL_III_bulk_cap, CL_III_wheeled_cap >>,
                 rows |-> << [ unit_type |-> "InfantryCo",
                               vals |-> (CL_III_bulk_cap :> 4 @@ CL_III_wheeled_cap :> 3) ],
                             [ unit_type |-> "TruckCo",
                               vals |-> (CL_III_bulk_cap :> 0 @@ CL_III_wheeled_cap :> 5) ] >> ] ],
    [ cons |-> [ columns |-> << CL_I_rate, CL_III_rate >>,
                 rows |-> << [ unit_type |-> "InfantryCo", action |-> "Assault",
                               vals |-> (CL_I_rate :> 1 @@ CL_III_rate :> 2) ],
                             [ unit_type |-> "FSC", action |-> "Defend",
                               vals |-> (CL_I_rate :> 2 @@ CL_III_rate :> 1) ] >> ],
      cap  |-> [ columns |-> << CL_III_cap, Javelin_cap >>,
                 rows |-> << [ unit_type |-> "InfantryCo",
                               vals |-> (CL_III_cap :> 3 @@ Javelin_cap :> 1) ],
                             [ unit_type |-> "FSC",
                               vals |-> (CL_III_cap :> 1 @@ Javelin_cap :> 0) ] >> ] ] }

\* cons_df["action"].unique(), cons_df["unit_type"].unique()
ActionOptions(cons) == Unique([ i \in 1..Len(cons.rows) |-> cons.rows[i].action ], << >>)
UnitOptions(cons)   == Unique([ i \in 1..Len(cons.rows) |-> cons.rows[i].unit_type ], << >>)

\* [c for c in df.columns if c.endswith(suffix)]
SuffixCols(df, suffix) == SelectSeq(df.columns, LAMBDA c : EndsWith(c, suffix))

\* a plausible slip: the pass stops only when both selections are empty
EmptySelection_both(sel_rates, sel_caps) == sel_rates = << >> /\ sel_caps = << >>

\* not selected_rates or not selected_caps
EmptySelection(sel_rates, sel_caps) == sel_rates = << >> \/ sel_caps = << >>

EmptySelectionMessage == "Select at least one consumption and one capacity subtype."

\* the pass from the selection guard to the grouped summary
Pass(cons, cap, act, counts, sel_rates, sel_caps) ==
  IF EmptySelection(sel_rates, sel_caps)
  THEN [ st_error   |-> EmptySelectionMessage,
         pc         |-> "stopped",
         calls      |-> << >>,
         req_detail |-> << >>,
         cap_detail |-> << >>,
         total_req  |-> NoSeries,
         total_cap  |-> NoSeries,
         group_df   |-> EmptyFrame ]
  ELSE LET t == compute_totals(cons, cap, act, counts, sel_rates, sel_caps)
       IN  [ st_error   |-> "",
             pc         |-> "done",
             calls      |-> << "compute_totals", "build_group_summary" >>,
             req_detail |-> t.req_detail,
             cap_detail |-> t.cap_detail,
             total_req  |-> t.total_req,
             total_cap  |-> t.total_cap,
             group_df   |-> build_group_summary(t.total_req, t.total_cap,
                                                sel_rates, sel_caps) ]

\* the outputs of the pass the new widget values trigger
Rerun ==
  \E r \in { Pass(cons_df', cap_df', action', unit_counts', selected_rates', selected_caps') } :
      /\ st_error' = r.st_error
      /\ pc' = r.pc
      /\ calls' = r.calls
      /\ req_detail' = r.req_detail
      /\ cap_detail' = r.cap_detail
      /\ total_req' = r.total_req
      /\ total_cap' = r.total_cap
      /\ group_df' = r.group_df

\* the first pass: the first action, every count 1, every column selected
Init ==
  /\ \E s \in Sessions :
       /\ cons_df = s.cons
       /\ cap_df = s.cap
  /\ action = ActionOptions(cons_df)[1]
  /\ unit_counts = [ u \in Range(UnitOptions(cons_df)) |-> 1 ]
  /\ selected_rates = SuffixCols(cons_df, RATE_SUFFIX)
  /\ selected_caps = SuffixCols(cap_df, CAP_SUFFIX)
  /\ \E r \in { Pass(cons_df, cap_df, action, unit_counts, selected_rates, selected_caps) } :
         /\ st_error = r.st_error
         /\ pc = r.pc
         /\ calls = r.calls
         /\ req_detail = r.req_detail
         /\ cap_detail = r.cap_detail
         /\ total_req = r.total_req
         /\ total_cap = r.total_cap
         /\ group_df = r.group_df
  /\ col = << >>
  /\ grp = << >>

SelectAction(a) ==
  /\ a \in Range(ActionOptions(cons_df))
  /\ a # action
  /\ action' = a
  /\ UNCHANGED << cons_df, cap_df, unit_counts, selected_rates, selected_caps, col, grp >>
  /\ Rerun

SetCount(u, n) ==
  /\ u \in DOMAIN unit_counts
  /\ n # unit_counts[u]
  /\ unit_counts' = [ unit_counts EXCEPT ![u] = n ]
  /\ UNCHANGED << cons_df, cap_df, action, selected_rates, selected_caps, col, grp >>
  /\ Rerun

DeselectRate(c) ==
  /\ c \in Range(selected_rates)
  /\ selected_rates' = Without(selected_rates, c)
  /\ UNCHANGED << cons_df, cap_df, action, unit_counts, selected_caps, col, grp >>
  /\ Rerun

SelectRate(c) ==
  /\ c \in Range(SuffixCols(cons_df, RATE_SUFFIX))
  /\ c \notin Range(selected_rates)
  /\ selected_rates' = Append(selected_rates, c)
  /\ UNCHANGED << cons_df, cap_df, action, unit_counts, selected_caps, col, grp >>
  /\ Rerun

DeselectCap(c) ==
  /\ c \in Range(selected_caps)
  /\ selected_caps' = Without(selected_caps, c)
  /\ UNCHANGED << cons_df, cap_df, action, unit_counts, selected_rates, col, grp >>
  /\ Rerun

SelectCap(c) ==
  /\ c \in Range(SuffixCols(cap_df, CAP_SUFFIX))
  /\ c \notin Range(selected_caps)
  /\ selected_caps' = Append(selected_caps, c)
  /\ UNCHANGED << cons_df, cap_df, action, unit_counts, selected_rates, col, grp >>
  /\ Rerun

Next ==
  \/ \E a \in Actions : SelectAction(a)
  \/ \E u \in DOMAIN unit_counts, n \in 0..MaxCount : SetCount(u, n)
  \/ \E c \in Range(cons_df.columns) : DeselectRate(c)
  \/ \E c \in Range(cons_df.columns) : SelectRate(c)
  \/ \E c \in Range(cap_df.columns) : DeselectCap(c)
  \/ \E c \in Range(cap_df.columns) : SelectCap(c)

Spec == Init /\ [][Next]_vars

(***************************************************************************)
(* Properties of build_group_summary (checked under SpecSummary)           *)
(***************************************************************************)

\* sum of f[x] over the elements of a set
RECURSIVE SetSum(_, _)
SetSum(S, f) ==
  IF S = {} THEN 0
  ELSE LET x == CHOOSE y \in S : TRUE IN f[x] + SetSum(S \ {x}, f)

Built       == pc = "returned" /\ calls = << "build_group_summary" >>
RowIds      == 1..Len(group_df.index)
Field(i, k) == group_df.data[i][k]
HasField(i, k) == k \in DOMAIN group_df.data[i]

\* the selected columns the classifier puts in the group of row i
RatesOf(i) == { c \in Range(selected_rates) : group_prefix(c) = group_df.index[i] }
CapsOf(i)  == { c \in Range(selected_caps)  : group_prefix(c) = group_df.index[i] }

\* x is one of the names a ", "-joined text lists
Listed(text, x) ==
  /\ text # Dash
  /\ \/ text = x
     \/ StartsWith(text, x \o CommaSpace)
     \/ EndsWith(text, CommaSpace \o x)
     \/ Contains(text, CommaSpace \o x \o CommaSpace)

\* C9: in every group row, Requirement is the sum of total_req over the
\* selected rate columns of the group, Capacity the sum of total_cap over its
\* selected capacity columns (0 where it has none), Surplus/(Deficit) is
\* Capacity - Requirement, and every selected column's group has a row, a
\* capacity-only group with Requirement 0 and Surplus equal to its Capacity.
C9_GroupSums ==
  Built =>
    /\ \A c \in Range(selected_rates) \cup Range(selected_caps) :
         \E i \in RowIds : group_df.index[i] = group_prefix(c)
    /\ \A i \in RowIds :
         /\ Field(i, "Requirement") = Num(SetSum(RatesOf(i), total_req))
         /\ Field(i, "Capacity") = Num(SetSum(CapsOf(i), total_cap))
         /\ Field(i, "Surplus/(Deficit)").kind = "num"
         /\ Field(i, "Surplus/(Deficit)").num
              = Field(i, "Capacity").num - Field(i, "Requirement").num
         /\ RatesOf(i) = {} =>
              /\ Field(i, "Requirement") = Num(0)
              /\ Field(i, "Surplus/(Deficit)") = Field(i, "Capacity")

\* a capacity-only group with capacity, next to a group in deficit
C9_Witness ==
  /\ Built
  /\ \E i, j \in RowIds :
       /\ RatesOf(i) = {} /\ Field(i, "Capacity").num > 0
       /\ Field(j, "Surplus/(Deficit)").num < 0
       /\ Field(j, "Capacity").num > 0

\* C3: the groups partition the selection: the group names are distinct,
\* every selected rate column and every selected capacity column is a member
\* of exactly one group, and nothing is dropped or counted twice: the
\* Requirement (Capacity) fields of the rows add up to the total over all
\* selected rate (capacity) columns.
C3_Partition ==
  Built =>
    /\ \A i, j \in RowIds : group_df.index[i] = group_df.index[j] => i = j
    /\ \A c \in Range(selected_rates) : Cardinality({ i \in RowIds : c \in RatesOf(i) }) = 1
    /\ \A c \in Range(selected_caps) : Cardinality({ i \in RowIds : c \in CapsOf(i) }) = 1
    /\ UNION { RatesOf(i) : i \in RowIds } = Range(selected_rates)
    /\ UNION { CapsOf(i) : i \in RowIds } = Range(selected_caps)
    /\ SetSum(RowIds, [ i \in RowIds |-> Field(i, "Requirement").num ])
         = SetSum(Range(selected_rates), total_req)
    /\ SetSum(RowIds, [ i \in RowIds |-> Field(i, "Capacity").num ])
         = SetSum(Range(selected_caps), total_cap)

\* two groups of which one name is a prefix of the other, both with members
C3_Witness ==
  /\ Built
  /\ \E i, j \in RowIds :
       /\ i # j
       /\ StartsWith(group_df.index[j], group_df.index[i])
       /\ RatesOf(i) # {} /\ RatesOf(j) # {}
       /\ Field(i, "Requirement").num > 0 /\ Field(j, "Requirement").num > 0

\* the group of row i has a capacity column whose name contains the mark
HasSplit(i, mark) == \E c \in CapsOf(i) : Contains(c, mark)

\* C2 as stated: a group none of whose capacity columns contains _bulk_cap
\* has no Bulk Cap and no Bulk Surplus field in its row of the returned
\* table, and likewise _wheeled_cap, Wheeled Cap and Wheeled Surplus; the
\* field is absent, whatever the other groups have.
C2_AbsentAsStated ==
  Built =>
    \A i \in RowIds :
      /\ ~HasSplit(i, BulkCapMark) =>
           ~HasField(i, "Bulk Cap") /\ ~HasField(i, "Bulk Surplus")
      /\ ~HasSplit(i, WheeledCapMark) =>
           ~HasField(i, "Wheeled Cap") /\ ~HasField(i, "Wheeled Surplus")

\* the two fields of one split (bulk or wheeled) in the returned table
C2_SplitFieldsOf(mark, capKey, surpKey) ==
  /\ (capKey \in Range(group_df.columns)) <=> (\E j \in RowIds : HasSplit(j, mark))
  /\ (surpKey \in Range(group_df.columns)) <=> (\E j \in RowIds : HasSplit(j, mark))
  /\ \A i \in RowIds :
       /\ DOMAIN group_df.data[i] = Range(group_df.columns)
       /\ ~HasSplit(i, mark) =>
            /\ HasField(i, capKey) => Field(i, capKey) = NaN
            /\ HasField(i, surpKey) => Field(i, surpKey) = NaN
       /\ HasSplit(i, mark) =>
            /\ Field(i, capKey)
                 = Num(SetSum({ c \in CapsOf(i) : Contains(c, mark) }, total_cap))
            /\ Field(i, surpKey)
                 = Num(Field(i, capKey).num - Field(i, "Requirement").num)

\* C2 amended: a group none of whose capacity columns contains _bulk_cap
\* never has a number in Bulk Cap or Bulk Surplus.  The returned table has
\* these two columns exactly when some group has a _bulk_cap column; in it a
\* group without one holds NaN (missing), never zero or any other number,
\* and a group with one holds the sum of its _bulk_cap columns and that sum
\* minus its Requirement.  The same for _wheeled_cap, Wheeled Cap and
\* Wheeled Surplus.
C2_AbsentOrNaN ==
  Built =>
    /\ C2_SplitFieldsOf(BulkCapMark, "Bulk Cap", "Bulk Surplus")
    /\ C2_SplitFieldsOf(WheeledCapMark, "Wheeled Cap", "Wheeled Surplus")

\* a group without a bulk column next to a group with one, and a table in
\* which no group has a wheeled column
C2_Witness ==
  /\ Built
  /\ \E i, j \in RowIds :
       /\ ~HasSplit(i, BulkCapMark)
       /\ HasSplit(j, BulkCapMark)
       /\ Field(i, "Bulk Cap") = NaN
       /\ Field(j, "Bulk Cap").num > 0
       /\ ~HasField(i, "Wheeled Cap")

\* the base name as C1 states it: the column with its _rate suffix stripped
SuffixStripped(c, suffix) ==
  IF EndsWith(c, suffix) THEN SubSeq(c, 1, Len(c) - Len(suffix)) ELSE c

\* the matched capacity as C1 states it: over the selected capacity columns
\* whose base name (the name with _cap stripped) starts with the rate's base
StatedMatched(rate) ==
  SetSum({ c \in Range(selected_caps) :
             StartsWith(SuffixStripped(c, CAP_SUFFIX), SuffixStripped(rate, RATE_SUFFIX)) },
         total_cap)

\* C1 as stated: the base name of a rate column is listed in its group's
\* Deficit Subtypes if and only if the group's Surplus is negative and the
\* column's total requirement is greater than its matched capacity.
C1_DeficitAsStated ==
  Built =>
    \A i \in RowIds : \A r \in RatesOf(i) :
      Listed(Field(i, "Deficit Subtypes").str, SuffixStripped(r, RATE_SUFFIX))
        <=> /\ Field(i, "Surplus/(Deficit)").num < 0
            /\ total_req[r] > StatedMatched(r)

\* the matched capacity of the code: over the selected capacity columns whose
\* whole name starts with the base name
NameMatched(base) ==
  SetSum({ c \in Range(selected_caps) : StartsWith(c, base) }, total_cap)

\* C1 amended: with the base name of a rate column being the column name
\* with every occurrence of _rate removed, and its matched capacity the sum
\* of total_cap over the selected capacity columns whose whole name (suffix
\* included) starts with that base name: a base name of a rate column of a
\* group is listed in the group's Deficit Subtypes if and only if the group's
\* Surplus is negative and a rate column of the group with that base name
\* has a total requirement greater than its matched capacity.
C1_DeficitIff ==
  Built =>
    \A i \in RowIds : \A r \in RatesOf(i) :
      Listed(Field(i, "Deficit Subtypes").str, Replace(r, RATE_SUFFIX, << >>))
        <=> /\ Field(i, "Surplus/(Deficit)").num < 0
            /\ \E q \in RatesOf(i) :
                 /\ Replace(q, RATE_SUFFIX, << >>) = Replace(r, RATE_SUFFIX, << >>)
                 /\ total_req[q] > NameMatched(Replace(q, RATE_SUFFIX, << >>))

\* a group in deficit with one rate listed and one rate, covered by several
\* capacity columns, not listed
C1_Witness ==
  /\ Built
  /\ \E i \in RowIds : \E r, q \in RatesOf(i) :
       /\ Field(i, "Surplus/(Deficit)").num < 0
       /\ Listed(Field(i, "Deficit Subtypes").str, Replace(r, RATE_SUFFIX, << >>))
       /\ ~Listed(Field(i, "Deficit Subtypes").str, Replace(q, RATE_SUFFIX, << >>))
       /\ total_req[q] > 0

\* C10 as stated: a group whose Surplus is negative names at least one
\* subtype in Deficit Subtypes; the placeholder is shown only for groups
\* whose surplus is >= 0.
C10_DeficitNamedAsStated ==
  Built =>
    \A i \in RowIds :
      Field(i, "Surplus/(Deficit)").num < 0 => Field(i, "Deficit Subtypes").str # Dash

\* every selected capacity column whose name starts with the base name of a
\* rate column of the group is a column of the group and starts with the base
\* name of no other rate column of the group
OwnMatches(i) ==
  \A r \in RatesOf(i) : \A c \in Range(selected_caps) :
    StartsWith(c, Replace(r, RATE_SUFFIX, << >>)) =>
      /\ c \in CapsOf(i)
      /\ \A q \in RatesOf(i) \ {r} : ~StartsWith(c, Replace(q, RATE_SUFFIX, << >>))

\* C10 amended: with non-negative totals, a group whose Surplus is negative
\* names at least one subtype in Deficit Subtypes provided every selected
\* capacity column that prefix-matches a rate column of the group belongs to
\* the group and prefix-matches no other rate column of the group.
C10_DeficitNamed ==
  Built =>
    \A i \in RowIds :
      (Field(i, "Surplus/(Deficit)").num < 0 /\ OwnMatches(i))
        => Field(i, "Deficit Subtypes").str # Dash

\* a group in deficit, with capacity of its own, that names a subtype
C10_Witness ==
  /\ Built
  /\ \E i \in RowIds :
       /\ Field(i, "Surplus/(Deficit)").num < 0
       /\ Field(i, "Capacity").num > 0
       /\ OwnMatches(i)
       /\ Field(i, "Deficit Subtypes").str # Dash

(***************************************************************************)
(* Properties of group_prefix (checked under SpecGroup)                    *)
(***************************************************************************)

Classified == pc = "returned" /\ calls = << "group_prefix" >>

\* the part of a name before its n-th underscore: its first n tokens (the
\* whole name when it has fewer than n underscores)
FirstTokens(name, n) ==
  LET U == { i \in 1..Len(name) : name[i] = Underscore }
  IN  IF Cardinality(U) < n THEN name
      ELSE LET k == CHOOSE j \in U : Cardinality({ i \in U : i < j }) = n - 1
           IN  SubSeq(name, 1, k - 1)

\* the three rules, in priority order
ThreeRules ==
  /\ StartsWith(col, CL_Prefix) => grp = FirstTokens(col, 2)
  /\ (~StartsWith(col, CL_Prefix) /\ StartsWith(col, Recovery_Prefix)) => grp = Recovery
  /\ (~StartsWith(col, CL_Prefix) /\ ~StartsWith(col, Recovery_Prefix))
       => grp = FirstTokens(col, 1)

\* C8 as stated: the three rules, and the group name never ends with the
\* _rate or the _cap suffix.
C8_RulesAsStated ==
  Classified =>
    /\ ThreeRules
    /\ ~EndsWith(grp, RATE_SUFFIX)
    /\ ~EndsWith(grp, CAP_SUFFIX)

\* C8 amended: a column that starts with CL_ maps to its first two
\* underscore-delimited tokens joined by an underscore, whatever the second
\* token is; otherwise one that starts with Recovery_ maps to Recovery;
\* otherwise the group is the first token.  The group name ends with _rate or
\* _cap exactly when the column starts with CL_ and its second token is rate
\* or cap (CL_rate maps to CL_rate, CL_cap_rate to CL_cap).
C8_Rules ==
  Classified =>
    /\ ThreeRules
    /\ (EndsWith(grp, RATE_SUFFIX) \/ EndsWith(grp, CAP_SUFFIX))
         <=> /\ StartsWith(col, CL_Prefix)
             /\ FirstTokens(col, 2) \in { SubSeq(CL_Prefix, 1, 2) \o RATE_SUFFIX,
                                          SubSeq(CL_Prefix, 1, 2) \o CAP_SUFFIX }

\* CL_III_bulk_cap classified as CL_III
C8_Witness ==
  /\ Classified
  /\ col = CL_III_bulk_cap
  /\ grp = << "C", "L", "_", "I", "I", "I" >>

(***************************************************************************)
(* Properties of compute_totals (checked under SpecTotals)                 *)
(***************************************************************************)

Totalled == pc = "returned" /\ calls = << "compute_totals" >>

AllUnits == { "InfantryCo", "FSC", "TruckCo" }

\* the count a dict gives a unit type, 0 for a unit type it has no key for
Get(c, u) == IF u \in DOMAIN c THEN c[u] ELSE 0

\* the pointwise sum of two count dicts
Plus(c1, c2) == [ u \in DOMAIN c1 \cup DOMAIN c2 |-> Get(c1, u) + Get(c2, u) ]

TotalsWith(cons, act, counts) ==
  compute_totals(cons, cap_df, act, counts, selected_rates, selected_caps)

\* C4: the totals are linear in the counts: for all count dicts c1 and c2
\* whose pointwise sum is unit_counts (absent keys counted as 0), the total
\* requirement of every selected rate column is the sum of its total
\* requirements under c1 and under c2, and likewise the total capacity.
C4_Linear ==
  Totalled =>
    \A c1, c2 \in { c \in CountDicts : DOMAIN c \subseteq DOMAIN unit_counts } :
      Plus(c1, c2) = unit_counts =>
        LET t1 == TotalsWith(cons_df, action, c1)
            t2 == TotalsWith(cons_df, action, c2)
        IN  /\ \A r \in Range(selected_rates) :
                 total_req[r] = t1.total_req[r] + t2.total_req[r]
            /\ \A c \in Range(selected_caps) :
                 total_cap[c] = t1.total_cap[c] + t2.total_cap[c]

\* counts that are the sum of two dicts with different keys, both of which
\* give a positive requirement and a positive capacity
C4_Witness ==
  /\ Totalled
  /\ \E c1, c2 \in CountDicts :
       /\ Plus(c1, c2) = unit_counts
       /\ DOMAIN c1 # DOMAIN c2
       /\ \E r \in Range(selected_rates) :
            /\ TotalsWith(cons_df, action, c1).total_req[r] > 0
            /\ TotalsWith(cons_df, action, c2).total_req[r] > 0
       /\ \E c \in Range(selected_caps) :
            /\ TotalsWith(cons_df, action, c1).total_cap[c] > 0
            /\ TotalsWith(cons_df, action, c2).total_cap[c] > 0

\* C5: the total requirement of every selected rate column is the sum of
\* rate * count over the consumption rows of the selected action only, and
\* req_detail holds those rows only; a consumption table with the same rows
\* of the selected action and other rows of other actions gives the same
\* req_detail and total requirement.  The total capacity is the sum of
\* capacity * count over every capacity row, for every choice of action.
C5_ActionFilter ==
  Totalled =>
    LET ActionRows(T) == SelectSeq(T.rows, LAMBDA row : row.action = action)
        mine == { i \in 1..Len(cons_df.rows) : cons_df.rows[i].action = action }
    IN  /\ \A r \in Range(selected_rates) :
             total_req[r]
               = SetSum(mine, [ i \in mine |->
                   cons_df.rows[i].vals[r] * Get(unit_counts, cons_df.rows[i].unit_type) ])
        /\ Len(req_detail) = Cardinality(mine)
        /\ \A i \in 1..Len(req_detail) : req_detail[i].action = action
        /\ \A T \in ConsTables :
             ActionRows(T) = ActionRows(cons_df) =>
               /\ TotalsWith(T, action, unit_counts).total_req = total_req
               /\ TotalsWith(T, action, unit_counts).req_detail = req_detail
        /\ \A c \in Range(selected_caps) :
             total_cap[c]
               = SetSum(1..Len(cap_df.rows), [ i \in 1..Len(cap_df.rows) |->
                   cap_df.rows[i].vals[c] * Get(unit_counts, cap_df.rows[i].unit_type) ])
        /\ \A a \in Actions :
             /\ TotalsWith(cons_df, a, unit_counts).total_cap = total_cap
             /\ TotalsWith(cons_df, a, unit_counts).cap_detail = cap_detail

\* a table with a counted row of the selected action and a counted row of
\* the other action
C5_Witness ==
  /\ Totalled
  /\ \E i, j \in 1..Len(cons_df.rows) : \E r \in Range(selected_rates) :
       /\ cons_df.rows[i].action = action
       /\ cons_df.rows[j].action # action
       /\ cons_df.rows[i].vals[r] * Get(unit_counts, cons_df.rows[i].unit_type) > 0
       /\ cons_df.rows[j].vals[r] * Get(unit_counts, cons_df.rows[j].unit_type) > 0
       /\ total_req[r] = cons_df.rows[i].vals[r] * Get(unit_counts, cons_df.rows[i].unit_type)
  /\ \E c \in Range(selected_caps) : total_cap[c] > 0

\* C7: a unit type of a table row that unit_counts has no key for counts 0:
\* its rows have count 0 and contribute 0 to every total, and the result is
\* the result with that unit type mapped to 0; when every unit type maps to
\* 0 or is absent, every total requirement and total capacity is 0.
C7_MissingIsZero ==
  Totalled =>
    /\ \A i \in 1..Len(req_detail) :
         req_detail[i].unit_type \notin DOMAIN unit_counts =>
           /\ req_detail[i].count = 0
           /\ \A r \in Range(selected_rates) : req_detail[i].vals[r] = 0
    /\ \A i \in 1..Len(cap_detail) :
         cap_detail[i].unit_type \notin DOMAIN unit_counts =>
           /\ cap_detail[i].count = 0
           /\ \A c \in Range(selected_caps) : cap_detail[i].vals[c] = 0
    /\ \A u \in AllUnits \ DOMAIN unit_counts :
         LET t == TotalsWith(cons_df, action, unit_counts @@ (u :> 0))
         IN  /\ t.total_req = total_req
             /\ t.total_cap = total_cap
             /\ t.req_detail = req_detail
             /\ t.cap_detail = cap_detail
    /\ (\A u \in DOMAIN unit_counts : unit_counts[u] = 0) =>
         /\ \A r \in Range(selected_rates) : total_req[r] = 0
         /\ \A c \in Range(selected_caps) : total_cap[c] = 0

\* a consumption row and a capacity row, both with positive numbers, whose
\* unit types have no key, next to counted rows
C7_Witness ==
  /\ Totalled
  /\ \E i \in 1..Len(req_detail) : \E r \in Range(selected_rates) :
       /\ req_detail[i].unit_type \notin DOMAIN unit_counts
       /\ \E j \in 1..Len(cons_df.rows) :
            /\ cons_df.rows[j].unit_type = req_detail[i].unit_type
            /\ cons_df.rows[j].action = action
            /\ cons_df.rows[j].vals[r] > 0
       /\ total_req[r] > 0
  /\ \E i \in 1..Len(cap_detail) : \E c \in Range(selected_caps) :
       /\ cap_detail[i].unit_type \notin DOMAIN unit_counts
       /\ cap_df.rows[i].vals[c] > 0
       /\ total_cap[c] > 0

(***************************************************************************)
(* Properties of the pass (checked under Spec)                             *)
(***************************************************************************)

\* C6: when the selected rate columns or the selected capacity columns are
\* empty, the pass shows the empty-selection error and stops before
\* compute_totals and build_group_summary: no detail, totals or summary in
\* that pass.  When both are non-empty no error is shown and both functions
\* run, giving a total for every selected column and a row for every group.
C6_EmptySelectionStops ==
  /\ (selected_rates = << >> \/ selected_caps = << >>) =>
       /\ st_error = EmptySelectionMessage
       /\ pc = "stopped"
       /\ calls = << >>
       /\ req_detail = << >> /\ cap_detail = << >>
       /\ total_req = NoSeries /\ total_cap = NoSeries
       /\ group_df = EmptyFrame
  /\ (selected_rates # << >> /\ selected_caps # << >>) =>
       /\ st_error = ""
       /\ pc = "done"
       /\ calls = << "compute_totals", "build_group_summary" >>
       /\ DOMAIN total_req = Range(selected_rates)
       /\ DOMAIN total_cap = Range(selected_caps)
       /\ Len(cap_detail) = Len(cap_df.rows)
       /\ Range(group_df.index)
            = { group_prefix(c) : c \in Range(selected_rates) \cup Range(selected_caps) }

\* a pass stopped with capacity columns still selected
C6_Witness ==
  /\ selected_rates = << >>
  /\ selected_caps # << >>
  /\ pc = "stopped"
  /\ st_error = EmptySelectionMessage

====
